---- MODULE Spec2Model ----
(***************************************************************************)
(* State-machine model of src/app.py (KPIQ Starter Report): one script run *)
(* of the Streamlit page.  The run reads the inbound query parameters,     *)
(* validates the signed link (validate_sso), stops with "Access denied"    *)
(* or purges the parameters, fetches the report from the data API with a   *)
(* re-signed request, and renders it.                                      *)
(*                                                                         *)
(* Python strings are sequences of one-character strings, so that int(),   *)
(* str(), the f-string joins and hmac.compare_digest are computed          *)
(* character by character.                                                 *)
(***************************************************************************)
EXTENDS Integers, Sequences, FiniteSets, TLC

(***************************************************************************)
(* Bounds of the model and constants of the program                        *)
(***************************************************************************)
\* replay window in seconds (app.py line 59)
Window == 600
\* the wall clock at which links are issued around; int(time.time()) is
\* drawn from Now0 .. Now0 + MaxClockSkew
Now0 == 1000
MaxClockSkew == 1
\* number of leading zeros an inbound ts may carry
MaxPad == 1

(***************************************************************************)
(* Characters and strings                                                  *)
(***************************************************************************)
Digits == <<"0", "1", "2", "3", "4", "5", "6", "7", "8", "9">>

\* the character outside ASCII that occurs in the inputs, named by its code
\* point (e-acute)
EAcute == "U+00E9"
NonAscii == {EAcute}

Whitespace == {" ", "\t", "\n"}

starter == <<"s", "t", "a", "r", "t", "e", "r">>
pro == <<"p", "r", "o">>

IsDigit(c) == \E i \in 1..10 : Digits[i] = c

DigitVal(c) == (CHOOSE i \in 1..10 : Digits[i] = c) - 1

Abs(n) == IF n < 0 THEN -n ELSE n

RECURSIVE LStrip(_)
LStrip(s) == IF s # <<>> /\ Head(s) \in Whitespace THEN LStrip(Tail(s)) ELSE s

RECURSIVE RStrip(_)
RStrip(s) ==
  IF s # <<>> /\ s[Len(s)] \in Whitespace THEN RStrip(SubSeq(s, 1, Len(s) - 1)) ELSE s

\* str.strip() as int() applies it to its argument
Strip(s) == RStrip(LStrip(s))

\* the digit part of an int() literal: digits, with single underscores
\* allowed only between two digits
DigitsWellFormed(d) ==
  /\ d # <<>>
  /\ IsDigit(d[1])
  /\ IsDigit(d[Len(d)])
  /\ \A i \in 1..Len(d) : IsDigit(d[i]) \/ d[i] = "_"
  /\ \A i \in 1..(Len(d) - 1) : ~(d[i] = "_" /\ d[i + 1] = "_")

RECURSIVE DigitsValue(_, _)
DigitsValue(d, acc) ==
  IF d = <<>> THEN acc
  ELSE IF Head(d) = "_" THEN DigitsValue(Tail(d), acc)
  ELSE DigitsValue(Tail(d), 10 * acc + DigitVal(Head(d)))

\* int(ts) of line 56: [ok |-> FALSE] stands for the ValueError
PyInt(s) ==
  LET t == Strip(s)
      signed == t # <<>> /\ Head(t) \in {"+", "-"}
      d == IF signed THEN Tail(t) ELSE t
  IN IF DigitsWellFormed(d)
     THEN [ok |-> TRUE,
           v |-> IF signed /\ Head(t) = "-" THEN -DigitsValue(d, 0) ELSE DigitsValue(d, 0)]
     ELSE [ok |-> FALSE, v |-> 0]

RECURSIVE NatToStr(_)
NatToStr(n) ==
  IF n < 10 THEN <<Digits[n + 1]>> ELSE NatToStr(n \div 10) \o <<Digits[(n % 10) + 1]>>

\* str(ts_int) as the f-string of line 68 formats it
IntToStr(n) == IF n < 0 THEN <<"-">> \o NatToStr(-n) ELSE NatToStr(n)

\* f"{email}|{shop}|{plan}|{ts}" (lines 68 and 107)
JoinPayload(email_, shop_, plan_, ts_) ==
  email_ \o <<"|">> \o shop_ \o <<"|">> \o plan_ \o <<"|">> \o ts_

\* sign (lines 28-29).  HMAC-SHA256 is modelled as an ideal MAC: a
\* deterministic ASCII digest that determines key and payload ("#" occurs
\* in no key and no payload of the model).
sign(payload, secret) == <<"#">> \o secret \o <<"#">> \o payload

IsAscii(s) == \A i \in 1..Len(s) : s[i] \notin NonAscii

\* hmac.compare_digest on two str (line 69): "raise" stands for the
\* TypeError it raises when either string holds a non-ASCII character
compare_digest(a, b) ==
  IF ~IsAscii(a) \/ ~IsAscii(b) THEN "raise"
  ELSE IF a = b THEN "equal" ELSE "differ"

\* ENABLED_PLANS (line 17): drop the spaces, split on ",", keep the
\* non-empty parts
RemoveSpaces(s) == SelectSeq(s, LAMBDA c : c # " ")

RECURSIVE SplitComma(_, _)
SplitComma(s, cur) ==
  IF s = <<>> THEN <<cur>>
  ELSE IF Head(s) = "," THEN <<cur>> \o SplitComma(Tail(s), <<>>)
  ELSE SplitComma(Tail(s), Append(cur, Head(s)))

ParsePlans(env) == SelectSeq(SplitComma(RemoveSpaces(env), <<>>), LAMBDA p : p # <<>>)

\* str.rstrip("/") of line 22
RECURSIVE RStripSlash(_)
RStripSlash(s) ==
  IF s # <<>> /\ s[Len(s)] = "/" THEN RStripSlash(SubSeq(s, 1, Len(s) - 1)) ELSE s

\* os.getenv(name, default): an environment variable is unset or holds a string
Unset == [set |-> FALSE, v |-> <<>>]
EnvSet(s) == [set |-> TRUE, v |-> s]
getenv(var, default) == IF var.set THEN var.v ELSE default

(***************************************************************************)
(* JSON values of the data API's response body                             *)
(***************************************************************************)
None == [t |-> "none"]
JNum == [t |-> "num"]
JStr == [t |-> "str", empty |-> FALSE]
JList(n) == [t |-> "list", n |-> n]
JObj(f) == [t |-> "obj", f |-> f]
EmptyDict == JObj(<<>>)

\* Python truthiness of a parsed JSON value (a number of the model is non-zero)
Truthy(j) ==
  CASE j.t = "none" -> FALSE
    [] j.t = "num" -> TRUE
    [] j.t = "str" -> ~j.empty
    [] j.t = "list" -> j.n > 0
    [] j.t = "obj" -> DOMAIN j.f # {}

\* x.get(key, default): only a dict has .get (AttributeError otherwise)
HasGet(j) == j.t = "obj"
Get(j, key, default) == IF key \in DOMAIN j.f THEN j.f[key] ELSE default

(***************************************************************************)
(* State                                                                   *)
(***************************************************************************)
VARIABLES
  ENABLED_PLANS,    \* line 17
  SSO_SECRET,       \* line 18
  DATA_API_BASE,    \* line 22
  DATA_API_SECRET,  \* line 23
  legacy,           \* TRUE when st.query_params is missing (old Streamlit)
  url,              \* the query string of the browser's URL: key -> list of values
  pc,               \* position of the script run
  qp,               \* line 77
  vs,               \* locals of validate_sso: email, shop, plan, ts, sig, ts_int, now
  ok, msg,          \* line 78
  email, shop, plan, ts,   \* lines 84-87
  sent,             \* the requests.get call issued by fetch_report, if any
  data, err,        \* line 129
  screen,           \* what the page shows, in order
  signed,           \* payloads and keys handed to sign(), in order
  events            \* verification, purge and fetch, in the order they happen

vars == <<ENABLED_PLANS, SSO_SECRET, DATA_API_BASE, DATA_API_SECRET, legacy, url, pc, qp,
          vs, ok, msg, email, shop, plan, ts, sent, data, err, screen, signed, events>>

config == <<ENABLED_PLANS, SSO_SECRET, DATA_API_BASE, DATA_API_SECRET, legacy>>

Required == <<"email", "shop", "plan", "ts", "sig">>
RequiredKeys == {Required[i] : i \in 1..Len(Required)}

\* the messages validate_sso returns (lines 47-72); the f-string of line 63
\* also names the plan, which the model leaves out of the message
MissingParameters == "Missing SSO parameters."
InvalidTimestamp == "Invalid timestamp."
LinkExpired == "SSO link expired."
PlanNotEnabled == "Plan not enabled."
ServerMisconfigured == "Server misconfigured (SSO secret missing)."
InvalidSignature == "Invalid SSO signature."

NoLocals == [email |-> <<>>, shop |-> <<>>, plan |-> <<>>, ts |-> <<>>, sig |-> <<>>,
             ts_int |-> 0, now |-> 0]
NoRequest == [issued |-> FALSE, url |-> <<>>, params |-> <<>>, signature |-> <<>>]

(***************************************************************************)
(* The inputs: environment, URL, clock, data API                           *)
(***************************************************************************)
\* a key with no value is absent from the URL
Absent == <<>>
One(s) == <<s>>
First(l) == IF l = <<>> THEN <<>> ELSE l[1]
Last(l) == l[Len(l)]

EmailOpts == {Absent, One(<<>>), One(<<"a", "@", "b">>)}
ShopOpts == {Absent, One(<<>>), One(<<"d", ".", "m">>)}
PlanOpts == {Absent, One(<<>>), One(starter), One(pro)}

RECURSIVE Zeros(_)
Zeros(n) == IF n = 0 THEN <<>> ELSE <<"0">> \o Zeros(n - 1)

TsInts == {Now0 - Window - 1, Now0 - Window, Now0, Now0 + Window, Now0 + Window + 1}

\* spellings of Now0 and of the first second past the window that int() reads
\* as the same integer as the canonical one
NonCanonical(n) ==
  {Zeros(k) \o NatToStr(n) : k \in 1..MaxPad}
    \cup {<<"+">> \o NatToStr(n), <<" ">> \o NatToStr(n), NatToStr(n) \o <<"\n">>,
          <<Head(NatToStr(n)), "_">> \o Tail(NatToStr(n))}

TsStrings ==
  {NatToStr(n) : n \in TsInts}
    \cup NonCanonical(Now0) \cup NonCanonical(Now0 + Window + 1)
    \cup {<<>>, <<"x">>, <<"1", "_">>, <<"-", "5">>}
TsOpts == {Absent} \cup {One(s) : s \in TsStrings}

IssuerKey == <<"k">>

\* the timestamp an issuer signs: the canonical decimal form of the integer
CanonicalTs(t) == IF PyInt(t).ok THEN IntToStr(PyInt(t).v) ELSE t

Replace(s, i, c) == [s EXCEPT ![i] = c]

\* the sig values sent with a link: the issuer's signature, a signature
\* under the empty key, one over the ts as spelled, forgeries one character
\* away from the issuer's, the empty string, none at all, or two values
SigOpts(e, s, p, t) ==
  LET good == sign(JoinPayload(First(e), First(s), First(p), CanonicalTs(First(t))), IssuerKey)
  IN {Absent,
      One(<<>>),
      One(good),
      One(sign(JoinPayload(First(e), First(s), First(p), CanonicalTs(First(t))), <<>>)),
      One(sign(JoinPayload(First(e), First(s), First(p), First(t)), IssuerKey)),
      One(Replace(good, 1, "0")),
      One(Replace(good, Len(good), "x")),
      One(Replace(good, 1, EAcute)),
      <<good, <<"x">>>>}

MkUrl(e, s, p, t, g) ==
  [k \in RequiredKeys |->
     CASE k = "email" -> e [] k = "shop" -> s [] k = "plan" -> p [] k = "ts" -> t [] k = "sig" -> g]

EmptyQuery == [k \in RequiredKeys |-> Absent]

\* bodies the data API may answer a 200 with; NotJson makes resp.json() raise
NotJson == [t |-> "notjson"]
Bodies ==
  {NotJson, None, JList(0), JList(1), JNum, EmptyDict,
   JObj([k \in {"kpis"} |-> JNum]),
   JObj([k \in {"kpis", "table"} |-> IF k = "kpis" THEN EmptyDict ELSE JList(0)]),
   JObj([k \in {"kpis", "table"} |->
           IF k = "kpis" THEN JObj([m \in {"total_orders"} |-> JStr]) ELSE JList(1)]),
   JObj([k \in {"kpis", "table"} |->
           IF k = "kpis" THEN JObj([m \in {"total_orders", "cr", "aov"} |-> JNum]) ELSE JList(1)]),
   JObj([k \in {"table"} |-> JNum])}

\* what requests.get does: raise (network error, timeout), or answer with a
\* status and a body
Responses ==
  {[raised |-> TRUE, status |-> 0, body |-> None]}
    \cup {[raised |-> FALSE, status |-> 500, body |-> None]}
    \cup {[raised |-> FALSE, status |-> 200, body |-> b] : b \in Bodies}

(***************************************************************************)
(* Init: the module-level configuration (lines 17-23) and the URL the page *)
(* is opened with                                                          *)
(***************************************************************************)
Init ==
  /\ \E plans \in {Unset, EnvSet(starter \o <<",", " ">> \o pro \o <<",">>)} :
       ENABLED_PLANS = ParsePlans(getenv(plans, starter))
  /\ SSO_SECRET \in {<<>>, IssuerKey}
  /\ \E base \in {Unset, EnvSet(<<"u", "/">>)} : DATA_API_BASE = RStripSlash(getenv(base, <<>>))
  /\ \E sec \in {Unset, EnvSet(<<"d">>)} : DATA_API_SECRET = getenv(sec, SSO_SECRET)
  /\ legacy \in BOOLEAN
  /\ \E e \in EmailOpts, s \in ShopOpts, p \in PlanOpts, t \in TsOpts :
       \E g \in SigOpts(e, s, p, t) : url = MkUrl(e, s, p, t, g)
  /\ pc = "start"
  /\ qp = <<>>
  /\ vs = NoLocals
  /\ ok = FALSE
  /\ msg = ""
  /\ email = <<>> /\ shop = <<>> /\ plan = <<>> /\ ts = <<>>
  /\ sent = NoRequest
  /\ data = None
  /\ err = ""
  /\ screen = <<>>
  /\ signed = <<>>
  /\ events = <<>>

(***************************************************************************)
(* _get_query_params and _val (lines 31-41)                                *)
(***************************************************************************)
\* dict(st.query_params) maps each key of the URL to its last value, a str;
\* st.experimental_get_query_params() maps it to the list of its values
QueryDict(u, old) ==
  [k \in {j \in RequiredKeys : u[j] # Absent} |->
     IF old THEN [list |-> TRUE, s |-> <<>>, l |-> u[k]]
            ELSE [list |-> FALSE, s |-> Last(u[k]), l |-> <<>>]]

_val(q, key) ==
  IF key \notin DOMAIN q THEN <<>>
  ELSE IF q[key].list THEN q[key].l[1] ELSE q[key].s

\* line 77
GetQueryParams ==
  /\ pc = "start"
  /\ qp' = QueryDict(url, legacy)
  /\ pc' = "vs_presence"
  /\ UNCHANGED <<config, url, vs, ok, msg, email, shop, plan, ts, sent, data, err, screen,
                 signed, events>>

(***************************************************************************)
(* validate_sso (lines 43-72), one action per check                        *)
(***************************************************************************)
\* return False, reason
Reject(reason) ==
  /\ ok' = FALSE
  /\ msg' = reason
  /\ pc' = "gate"
  /\ events' = Append(events, "rejected")

AllPresent(q) == ~(\E i \in 1..Len(Required) : Required[i] \notin DOMAIN q)

\* lines 45-53
VsPresence ==
  /\ pc = "vs_presence"
  /\ IF ~AllPresent(qp)
     THEN Reject(MissingParameters) /\ UNCHANGED vs
     ELSE /\ vs' = [vs EXCEPT !.email = _val(qp, "email"), !.shop = _val(qp, "shop"),
                              !.plan = _val(qp, "plan"), !.ts = _val(qp, "ts"),
                              !.sig = _val(qp, "sig")]
          /\ pc' = "vs_parse"
          /\ UNCHANGED <<ok, msg, events>>
  /\ UNCHANGED <<config, url, qp, email, shop, plan, ts, sent, data, err, screen, signed>>

\* lines 55-58
VsParse ==
  /\ pc = "vs_parse"
  /\ IF ~PyInt(vs.ts).ok
     THEN Reject(InvalidTimestamp) /\ UNCHANGED vs
     ELSE /\ vs' = [vs EXCEPT !.ts_int = PyInt(vs.ts).v]
          /\ pc' = "vs_window"
          /\ UNCHANGED <<ok, msg, events>>
  /\ UNCHANGED <<config, url, qp, email, shop, plan, ts, sent, data, err, screen, signed>>

\* the window with its boundary excluded
WithinWindowExclusive(now, ts_int) == Abs(now - ts_int) < Window

WithinWindow(now, ts_int) == ~(Abs(now - ts_int) > Window)

\* lines 59-60; now is int(time.time())
VsWindow ==
  /\ pc = "vs_window"
  /\ \E now \in Now0..(Now0 + MaxClockSkew) :
       /\ vs' = [vs EXCEPT !.now = now]
       /\ IF ~WithinWindow(now, vs.ts_int)
          THEN Reject(LinkExpired)
          ELSE pc' = "vs_plan" /\ UNCHANGED <<ok, msg, events>>
  /\ UNCHANGED <<config, url, qp, email, shop, plan, ts, sent, data, err, screen, signed>>

\* the plan checked against the plans the product knows, not the configured ones
PlanEnabledHardcoded(p, plans) == p \in {starter, pro}

PlanEnabled(p, plans) == \E i \in 1..Len(plans) : plans[i] = p

\* lines 62-63
VsPlan ==
  /\ pc = "vs_plan"
  /\ IF ~PlanEnabled(vs.plan, ENABLED_PLANS)
     THEN Reject(PlanNotEnabled)
     ELSE pc' = "vs_secret" /\ UNCHANGED <<ok, msg, events>>
  /\ UNCHANGED <<config, url, qp, vs, email, shop, plan, ts, sent, data, err, screen, signed>>

\* the secret check left out
SecretConfiguredAlways(secret) == TRUE

SecretConfigured(secret) == secret # <<>>

\* lines 65-66
VsSecret ==
  /\ pc = "vs_secret"
  /\ IF ~SecretConfigured(SSO_SECRET)
     THEN Reject(ServerMisconfigured)
     ELSE pc' = "vs_signature" /\ UNCHANGED <<ok, msg, events>>
  /\ UNCHANGED <<config, url, qp, vs, email, shop, plan, ts, sent, data, err, screen, signed>>

\* the payload built from ts as it arrived
InboundPayloadRawTs(l) == JoinPayload(l.email, l.shop, l.plan, l.ts)

\* the payload of line 68
InboundPayload(l) == JoinPayload(l.email, l.shop, l.plan, IntToStr(l.ts_int))

\* lines 68-72; a TypeError out of compare_digest ends the run unhandled
VsSignature ==
  /\ pc = "vs_signature"
  /\ LET expected == sign(InboundPayload(vs), SSO_SECRET)
         cmp == compare_digest(expected, vs.sig)
     IN /\ signed' = Append(signed, [payload |-> InboundPayload(vs), secret |-> SSO_SECRET])
        /\ CASE cmp = "raise" ->
                  /\ pc' = "crashed"
                  /\ screen' = Append(screen, "exception")
                  /\ UNCHANGED <<ok, msg, events>>
             [] cmp = "differ" -> Reject(InvalidSignature) /\ UNCHANGED screen
             [] cmp = "equal" ->
                  /\ ok' = TRUE
                  /\ msg' = ""
                  /\ pc' = "gate"
                  /\ events' = Append(events, "accepted")
                  /\ UNCHANGED screen
  /\ UNCHANGED <<config, url, qp, vs, email, shop, plan, ts, sent, data, err>>

(***************************************************************************)
(* The script after validate_sso (lines 78-180)                            *)
(***************************************************************************)
\* lines 78-87: st.error and st.stop() on a rejection, else the identity is
\* read back from qp as it arrived
Gate ==
  /\ pc = "gate"
  /\ IF ~ok
     THEN /\ screen' = Append(screen, "denied")
          /\ pc' = "stopped"
          /\ UNCHANGED <<email, shop, plan, ts>>
     ELSE /\ email' = _val(qp, "email")
          /\ shop' = _val(qp, "shop")
          /\ plan' = _val(qp, "plan")
          /\ ts' = _val(qp, "ts")
          /\ pc' = "purge"
          /\ UNCHANGED screen
  /\ UNCHANGED <<config, url, qp, vs, ok, msg, sent, data, err, signed, events>>

\* a purge that clears the identity and leaves sig in the URL
ClearedQueryKeepsSig(u) == [k \in RequiredKeys |-> IF k = "sig" THEN u[k] ELSE Absent]

\* what st.query_params.clear() and st.experimental_set_query_params() leave
ClearedQuery(u) == EmptyQuery

\* lines 90-96
Purge ==
  /\ pc = "purge"
  /\ url' = ClearedQuery(url)
  /\ events' = Append(events, "purge")
  /\ screen' = Append(screen, "welcome")
  /\ pc' = "fetch"
  /\ UNCHANGED <<config, qp, vs, ok, msg, email, shop, plan, ts, sent, data, err, signed>>

\* the payload of line 107
OutboundPayload(email_, shop_, plan_, ts_) == JoinPayload(email_, shop_, plan_, ts_)

\* lines 105-107; DATA_API_SECRET or "" is DATA_API_SECRET, a str
_sig_header(email_, shop_, plan_, ts_) ==
  sign(OutboundPayload(email_, shop_, plan_, ts_), DATA_API_SECRET)

NotConfigured == "DATA API base URL not configured (KPIQ_DATA_API_BASE)."
RequestFailed == "Request failed"
ApiError == "API error"
\* err is None
NoError == ""

\* fetch_report and line 129 (lines 109-129)
FetchReport ==
  /\ pc = "fetch"
  /\ IF DATA_API_BASE = <<>>
     THEN /\ data' = None
          /\ err' = NotConfigured
          /\ UNCHANGED <<sent, signed, events>>
     ELSE /\ sent' = [issued |-> TRUE,
                      url |-> DATA_API_BASE \o <<"/", "r">>,
                      params |-> [shop |-> shop, email |-> email, plan |-> plan, ts |-> ts],
                      signature |-> _sig_header(email, shop, plan, ts)]
          /\ signed' = Append(signed, [payload |-> OutboundPayload(email, shop, plan, ts),
                                       secret |-> DATA_API_SECRET])
          /\ events' = Append(events, "fetch")
          /\ \E r \in Responses :
               IF r.raised THEN data' = None /\ err' = RequestFailed
               ELSE IF r.status # 200 THEN data' = None /\ err' = ApiError
               ELSE IF r.body = NotJson THEN data' = None /\ err' = RequestFailed
               ELSE data' = r.body /\ err' = NoError
  /\ pc' = "handle"
  /\ UNCHANGED <<config, url, qp, vs, ok, msg, email, shop, plan, ts, screen>>

\* lines 131-134
HandleFetch ==
  /\ pc = "handle"
  /\ IF err # NoError
     THEN screen' = Append(screen, "pending") /\ pc' = "stopped"
     ELSE pc' = "render" /\ UNCHANGED screen
  /\ UNCHANGED <<config, url, qp, vs, ok, msg, email, shop, plan, ts, sent, data, err, signed,
                 events>>

\* f"{x:,}", f"{x:.2%}" and f"{x:.2f}" format numbers only
Formats(j) == j.t = "num"

\* lines 145-180: "exception" when a statement raises, "no rows" for the
\* warning of lines 158-160, "report" when the table is drawn
RenderOutcome(d) ==
  LET d1 == IF Truthy(d) THEN d ELSE EmptyDict
  IN IF ~HasGet(d1) THEN "exception"
     ELSE LET kpis == Get(d1, "kpis", EmptyDict)
              table == Get(d1, "table", JList(0))
          IN IF Truthy(kpis) /\ ~HasGet(kpis) THEN "exception"
             ELSE IF Truthy(kpis) /\ \E m \in {"total_orders", "cr", "aov"} :
                                       m \in DOMAIN kpis.f /\ ~Formats(kpis.f[m])
                  THEN "exception"
             ELSE IF ~Truthy(table) THEN "no rows"
             ELSE IF table.t # "list" THEN "exception"
             ELSE "report"

Render ==
  /\ pc = "render"
  /\ screen' = Append(screen, RenderOutcome(data))
  /\ pc' = IF RenderOutcome(data) = "exception" THEN "crashed" ELSE "stopped"
  /\ UNCHANGED <<config, url, qp, vs, ok, msg, email, shop, plan, ts, sent, data, err, signed,
                 events>>

Next ==
  \/ GetQueryParams
  \/ VsPresence
  \/ VsParse
  \/ VsWindow
  \/ VsPlan
  \/ VsSecret
  \/ VsSignature
  \/ Gate
  \/ Purge
  \/ FetchReport
  \/ HandleFetch
  \/ Render

Spec == Init /\ [][Next]_vars

(***************************************************************************)
(* Vocabulary of the properties                                            *)
(***************************************************************************)
\* validate_sso has ended: it returned, or an exception left it
ValidateEnded ==
  pc \notin {"start", "vs_presence", "vs_parse", "vs_window", "vs_plan", "vs_secret",
             "vs_signature"}

RunEnded == pc \in {"stopped", "crashed"}

Accepted == events # <<>> /\ events[1] = "accepted" /\ ok /\ msg = ""
Rejected(reason) == events = <<"rejected">> /\ ~ok /\ msg = reason

\* the request validate_sso was called with
F(key) == _val(qp, key)
FieldsPresent == \A k \in RequiredKeys : k \in DOMAIN qp
TsParses == PyInt(F("ts")).ok
T == PyInt(F("ts")).v
Age == IF vs.now >= T THEN vs.now - T ELSE T - vs.now
PlanAllowed == F("plan") \in {ENABLED_PLANS[i] : i \in DOMAIN ENABLED_PLANS}
CanonicalPayload ==
  F("email") \o <<"|">> \o F("shop") \o <<"|">> \o F("plan") \o <<"|">> \o IntToStr(T)
SigMatches == F("sig") = sign(CanonicalPayload, SSO_SECRET)

\* every check before the signature check passes
OtherwiseValid ==
  /\ FieldsPresent
  /\ TsParses
  /\ Age <= Window
  /\ PlanAllowed
  /\ SSO_SECRET # <<>>

Contains(seq, x) == \E i \in DOMAIN seq : seq[i] = x

(***************************************************************************)
(* C1 - C10                                                                *)
(***************************************************************************)
\* C1: a request with all five fields present, a ts that parses to T within
\* 600 s of now, an allowed plan, a non-empty secret and
\* sig = sign("email|shop|plan|T", secret), T in canonical decimal form, is
\* accepted: validate_sso returns (True, "").
C1_ValidLinkAccepted == ValidateEnded /\ OtherwiseValid /\ SigMatches => Accepted

\* C1 happens, with a ts that is not in canonical form
C1_Witness ==
  /\ pc = "gate" /\ OtherwiseValid /\ SigMatches /\ ok
  /\ F("ts") # IntToStr(T)

\* C2: on an otherwise valid request every sig that differs from the expected
\* signature yields Rejected(InvalidSignature).
C2_ForgedSigRejectedAsInvalid ==
  ValidateEnded /\ OtherwiseValid /\ ~SigMatches => Rejected(InvalidSignature)

\* C3: the replay window is symmetric and inclusive at 600 s: a timestamp
\* more than 600 s from now, past or future, yields Rejected(LinkExpired)
\* whatever its signature, and an otherwise valid, correctly signed request
\* exactly 600 s from now, past or future, is accepted.
C3_WindowInclusive600 ==
  ValidateEnded /\ FieldsPresent /\ TsParses =>
    /\ Age > Window => Rejected(LinkExpired)
    /\ Age = Window /\ OtherwiseValid /\ SigMatches => Accepted

\* C3 happens: a link stamped exactly 600 s in the future is accepted
C3_Witness ==
  /\ pc = "gate" /\ FieldsPresent /\ TsParses /\ T = vs.now + Window
  /\ OtherwiseValid /\ SigMatches /\ ok

\* C4: a request in which one of the five fields is absent or empty yields
\* Rejected(MissingParameters) and never reaches signature computation.
C4_EmptyOrAbsentIsMissing ==
  ValidateEnded /\ (\E k \in RequiredKeys : k \notin DOMAIN qp \/ F(k) = <<>>) =>
    Rejected(MissingParameters) /\ signed = <<>>

\* C5: with the five fields present and the timestamp within the window, a
\* plan outside the allowed plans yields Rejected(PlanNotEnabled), whether
\* or not the signature is valid for that plan.
C5_DisallowedPlanRejected ==
  ValidateEnded /\ FieldsPresent /\ TsParses /\ Age <= Window /\ ~PlanAllowed =>
    Rejected(PlanNotEnabled)

\* C5 happens with a signature that is correct for the disallowed plan
C5_Witness ==
  /\ pc = "gate" /\ FieldsPresent /\ TsParses /\ Age <= Window /\ ~PlanAllowed
  /\ F("plan") = pro /\ SSO_SECRET # <<>> /\ SigMatches

\* C6: with an empty SSO secret nothing is ever accepted, and every request
\* that passes the presence, timestamp, window and plan checks is rejected
\* as ServerMisconfigured.
C6_FailsClosedWithoutSecret ==
  SSO_SECRET = <<>> =>
    /\ ~ok
    /\ ~Contains(events, "accepted")
    /\ ValidateEnded /\ FieldsPresent /\ TsParses /\ Age <= Window /\ PlanAllowed =>
         Rejected(ServerMisconfigured)

\* C6 happens with a sig that is the HMAC keyed with the empty string
C6_Witness ==
  /\ pc = "gate" /\ SSO_SECRET = <<>>
  /\ FieldsPresent /\ TsParses /\ Age <= Window /\ PlanAllowed /\ SigMatches

\* C7: the payload signed for the X-KPIQ-Signature header is the canonical
\* string whose signature was verified inbound, and with equal secrets the
\* header equals the accepted sig.
C7_OutboundSignsVerifiedPayload ==
  sent.issued =>
    /\ signed[Len(signed)].payload = signed[1].payload
    /\ signed[Len(signed)].payload = CanonicalPayload
    /\ DATA_API_SECRET = SSO_SECRET => sent.signature = F("sig")

\* C8: verification, then purge, then fetch: an accepted run clears the
\* query parameters right after acceptance and before the downstream
\* request is issued; a rejected run stops and issues no request.
C8_VerifyPurgeFetchOrder ==
  /\ events \in {<<>>, <<"rejected">>, <<"accepted">>, <<"accepted", "purge">>,
                 <<"accepted", "purge", "fetch">>}
  /\ sent.issued => events = <<"accepted", "purge", "fetch">> /\ ok /\ url = EmptyQuery
  /\ ok /\ pc \notin {"gate", "purge"} => Contains(events, "purge") /\ url = EmptyQuery
  /\ pc = "purge" => events = <<"accepted">> /\ screen = <<>> /\ ~sent.issued
  /\ Contains(events, "rejected") => pc \in {"gate", "stopped"} /\ ~sent.issued
  /\ Contains(screen, "denied") => pc = "stopped" /\ ~ok /\ ~sent.issued

\* C8 happens: the downstream request of an accepted run has been issued
C8_Witness == sent.issued /\ pc = "handle" /\ url = EmptyQuery /\ FieldsPresent

\* C9: after acceptance no downstream fetch failure is shown as access
\* denied or ends in an unhandled error, whatever the body's shape, and a
\* failure fetch_report reports ends the run in "data pending".
C9_FetchFailureIsDataPending ==
  ok /\ pc \in {"handle", "render", "stopped", "crashed"} =>
    /\ ~Contains(screen, "denied")
    /\ ~Contains(screen, "exception")
    /\ pc # "crashed"
    /\ err # NoError /\ RunEnded => screen[Len(screen)] = "pending"

\* C10: validate_sso returns exactly one of Accepted or the reason of the
\* first failing check in the order presence, timestamp parse, replay
\* window, plan allow-list, secret presence, signature.
C10_FirstFailingCheckDecides ==
  ValidateEnded =>
    IF ~FieldsPresent THEN Rejected(MissingParameters)
    ELSE IF ~TsParses THEN Rejected(InvalidTimestamp)
    ELSE IF Age > Window THEN Rejected(LinkExpired)
    ELSE IF ~PlanAllowed THEN Rejected(PlanNotEnabled)
    ELSE IF SSO_SECRET = <<>> THEN Rejected(ServerMisconfigured)
    ELSE IF ~SigMatches THEN Rejected(InvalidSignature)
    ELSE Accepted

====
